---- MODULE Spec2Model ----
(***************************************************************************)
(* Patient record store (src/main.py) and the lifestyle-risk rule of the   *)
(* premium service (src/app.py).                                            *)
(*                                                                         *)
(* Units.  Heights are in centimetres, weights in kilograms, bmi values in *)
(* hundredths: height 150 is 1.5 m, bmi 2222 is 22.22.  The quotients of   *)
(* the source are floats; here they are exact, which gives the same        *)
(* rounded bmi and the same comparisons for the heights and weights used   *)
(* below (1.5 and 2.0 have exact squares, and no other quotient falls on a *)
(* rounding tie or on a threshold).                                        *)
(***************************************************************************)
EXTENDS Integers, Sequences, FiniteSets, TLC

VARIABLES
    file,   \* patients.json: the persisted mapping, in dict (insertion) order
    req,    \* the request being answered by the sequential server
    resp,   \* its response, not yet delivered
    loaded, \* what load_data() returned to the endpoint that made the response
    last,   \* history: per patient id, whether its last successful mutation
            \* was a create ("created"), a delete ("deleted") or neither ("other")
    work,   \* concurrent server: per worker thread, its request and snapshot
    risk    \* premium service: the applicant last derived, with its result

vars == <<file, req, resp, loaded, last, work, risk>>

(***************************************************************************)
(* Bounds and input domains                                                *)
(***************************************************************************)
MaxIds == 2
MaxSet == 2
NumWorkers == 2

PatientIds == 1..MaxIds
Workers == 1..NumWorkers

Names == {"Ali", "Sara"}
Cities == {"Lahore"}
AgeInputs == {0, 30, 120}
GenderInputs == {"male", "alien"}
HeightInputs == {0, 150, 200}
WeightInputs == {0, 50, 100}

InputFields == {"name", "city", "age", "gender", "height", "weight"}
DerivedFields == {"bmi", "verdict"}

Inputs(f) ==
    CASE f = "name" -> Names
      [] f = "city" -> Cities
      [] f = "age" -> AgeInputs
      [] f = "gender" -> GenderInputs
      [] f = "height" -> HeightInputs
      [] f = "weight" -> WeightInputs

\* every function from the field set T to the inputs of each field
RECURSIVE Assignments(_)
Assignments(T) ==
    IF T = {} THEN {<<>>}
    ELSE LET f == CHOOSE x \in T : TRUE
         IN  {(f :> v) @@ g : v \in Inputs(f), g \in Assignments(T \ {f})}

(***************************************************************************)
(* Patient: field constraints and computed fields                          *)
(***************************************************************************)
\* the constraints with le=120 in place of lt=120
FieldOK_le(f, v) ==
    CASE f = "age" -> v > 0 /\ v <= 120
      [] f = "gender" -> v \in {"male", "female", "other"}
      [] f = "height" -> v > 0
      [] f = "weight" -> v > 0
      [] OTHER -> TRUE

\* Field(gt=0, lt=120), Literal[...], Field(gt=0) of Patient / PatientUpdate
FieldOK(f, v) ==
    CASE f = "age" -> v > 0 /\ v < 120
      [] f = "gender" -> v \in {"male", "female", "other"}
      [] f = "height" -> v > 0
      [] f = "weight" -> v > 0
      [] OTHER -> TRUE

\* round(n / d, 0) of Python: to the nearest integer, a tie to the even one
RoundHalfEven(n, d) ==
    LET q == n \div d
        r == n % d
    IN  IF 2 * r < d THEN q
        ELSE IF 2 * r > d THEN q + 1
        ELSE IF q % 2 = 0 THEN q ELSE q + 1

\* Patient.bmi: round(weight / height ** 2, 2), in hundredths
bmi(height, weight) == RoundHalfEven(weight * 1000000, height * height)

\* verdict with the upper limits taken as inclusive
verdict_inclusive(b) ==
    IF b <= 1850 THEN "Underweight"
    ELSE IF b <= 2500 THEN "Normal"
    ELSE IF b <= 3000 THEN "Overweight"
    ELSE "Obese"

\* Patient.verdict
verdict(b) ==
    IF b < 1850 THEN "Underweight"
    ELSE IF b < 2500 THEN "Normal"
    ELSE IF b < 3000 THEN "Overweight"
    ELSE "Obese"

\* Patient(**kwargs): kwargs holds the values `vals` and None for the keys
\* `nulls`; every declared field is required, non-null and within its
\* constraint, and keys that are no declared field are ignored
PatientValid(vals, nulls) ==
    /\ InputFields \subseteq DOMAIN vals
    /\ InputFields \cap nulls = {}
    /\ \A f \in InputFields : FieldOK(f, vals[f])

\* PatientUpdate(...): every field Optional, a non-null value within its constraint
PatientUpdateValid(upd) ==
    \A f \in DOMAIN upd.vals : FieldOK(f, upd.vals[f])

\* Patient.model_dump(exclude=['id']): the declared fields and the computed ones
model_dump(vals) ==
    [f \in InputFields \cup DerivedFields |->
        IF f = "bmi" THEN bmi(vals["height"], vals["weight"])
        ELSE IF f = "verdict" THEN verdict(bmi(vals["height"], vals["weight"]))
        ELSE vals[f]]

\* PatientUpdate.model_dump(exclude_unset=True): the keys the body supplied
FieldsSet(upd) == DOMAIN upd.vals \cup upd.nulls

(***************************************************************************)
(* The persisted mapping: a sequence of entries [id, rec], in the order a  *)
(* Python dict iterates them (insertion order, kept by json.load/dump)     *)
(***************************************************************************)
Keys(data) == {data[i].id : i \in 1..Len(data)}

\* data[patient_id]
Get(data, id) == (CHOOSE e \in {data[i] : i \in 1..Len(data)} : e.id = id).rec

\* an assignment that rebinds the mapping to the one entry
PutOnly(data, id, rec) == <<[id |-> id, rec |-> rec]>>

\* data[patient_id] = rec: a new key goes last, an existing key keeps its place
Put(data, id, rec) ==
    IF id \in Keys(data)
    THEN [i \in 1..Len(data) |->
            IF data[i].id = id THEN [id |-> id, rec |-> rec] ELSE data[i]]
    ELSE Append(data, [id |-> id, rec |-> rec])

\* a delete that drops the first entry, whatever its key
DelFirst(data, id) == Tail(data)

\* del data[patient_id]
Del(data, id) == SelectSeq(data, LAMBDA e : e.id # id)

\* data.values()
ValuesOf(data) == [i \in 1..Len(data) |-> data[i].rec]

\* load_data(): the whole file
load_data == file

\* save_data(data): the whole file is overwritten with data
save_data(data) == file' = data

(***************************************************************************)
(* sorted(values, key=lambda x: x.get(sort_by, 0), reverse=...)            *)
(***************************************************************************)
\* x.get(sort_by, 0)
SortKey(x, sort_by) == IF sort_by \in DOMAIN x THEN x[sort_by] ELSE 0

Reverse(s) == [i \in 1..Len(s) |-> s[Len(s) + 1 - i]]

\* x goes after the last element of the sorted s whose key is not greater
InsertAfterLE(s, x, sort_by) ==
    LET k == Cardinality({i \in 1..Len(s) :
                 SortKey(s[i], sort_by) <= SortKey(x, sort_by)})
    IN  SubSeq(s, 1, k) \o <<x>> \o SubSeq(s, k + 1, Len(s))

\* list.sort(): ascending and stable
RECURSIVE StableSort(_, _)
StableSort(s, sort_by) ==
    IF s = <<>> THEN <<>>
    ELSE InsertAfterLE(StableSort(SubSeq(s, 1, Len(s) - 1), sort_by),
                       s[Len(s)], sort_by)

\* a descending sort made by reversing the ascending one
sorted_then_reversed(s, sort_by, reverse) ==
    IF reverse THEN Reverse(StableSort(s, sort_by)) ELSE StableSort(s, sort_by)

\* reverse=True reverses the list, sorts it ascending, and reverses the result
sorted(s, sort_by, reverse) ==
    IF reverse THEN Reverse(StableSort(Reverse(s), sort_by))
    ELSE StableSort(s, sort_by)

(***************************************************************************)
(* Endpoints, as functions of the loaded data: the status, the body, and   *)
(* the data to save (save = FALSE when save_data is not reached)           *)
(***************************************************************************)
Reply(status, body) == [data |-> <<>>, status |-> status, body |-> body, save |-> FALSE]
Saved(status, body, data) == [data |-> data, status |-> status, body |-> body, save |-> TRUE]

\* GET /view
view(data) == Reply(200, data)

\* GET /patient/{patient_id}
view_patient(data, id) ==
    IF id \in Keys(data) THEN Reply(200, Get(data, id))
    ELSE Reply(404, "patient data not found")

\* sort_patient without the check of `order`: anything but desc sorts ascending
sort_patient_any_order(data, sort_by, order) ==
    IF sort_by \notin {"height", "weight", "bmi"} THEN Reply(400, "Invalid field")
    ELSE Reply(200, sorted(ValuesOf(data), sort_by, order = "desc"))

\* GET /sort
sort_patient(data, sort_by, order) ==
    IF sort_by \notin {"height", "weight", "bmi"} THEN Reply(400, "Invalid field")
    ELSE IF order \notin {"asc", "desc"} THEN Reply(400, "Invalid order")
    ELSE Reply(200, sorted(ValuesOf(data), sort_by, order = "desc"))

\* create_patient without the check for an existing id
create_patient_overwrite(data, id, body) ==
    IF ~PatientValid(body, {}) THEN Reply(422, "validation error")
    ELSE Saved(201, "Patient Data Created Successful",
               Put(data, id, model_dump(body)))

\* POST /create; a body that is no valid Patient is answered 422 by the framework
create_patient(data, id, body) ==
    IF ~PatientValid(body, {}) THEN Reply(422, "validation error")
    ELSE IF id \in Keys(data) THEN Reply(400, "Patient already exists")
    ELSE Saved(201, "Patient Data Created Successful",
               Put(data, id, model_dump(body)))

\* the loop existing_patient_info[key] = value over the supplied keys: the
\* values of the merged dict; its keys in upd.nulls hold None
Merge(existing, upd) ==
    [f \in (DOMAIN existing \cup DOMAIN upd.vals) \ upd.nulls |->
        IF f \in DOMAIN upd.vals THEN upd.vals[f] ELSE existing[f]]

\* update_patient without the rebuild through Patient: the merged dict is saved
update_patient_unvalidated(data, id, upd) ==
    IF ~PatientUpdateValid(upd) THEN Reply(422, "validation error")
    ELSE IF id \notin Keys(data) THEN Reply(404, "Patient data not found")
    ELSE IF upd.nulls # {} THEN Reply(500, "ValidationError")
    ELSE Saved(200, "Patient Data Updated",
               Put(data, id, Merge(Get(data, id), upd)))

\* PUT /edit/{patient_id}; Patient(**merged) raising ValidationError inside the
\* endpoint is answered 500, before save_data
update_patient(data, id, upd) ==
    IF ~PatientUpdateValid(upd) THEN Reply(422, "validation error")
    ELSE IF id \notin Keys(data) THEN Reply(404, "Patient data not found")
    ELSE LET merged == Merge(Get(data, id), upd)
         IN  IF ~PatientValid(merged, upd.nulls)
             THEN Reply(500, "ValidationError")
             ELSE Saved(200, "Patient Data Updated",
                        Put(data, id, model_dump(merged)))

\* DELETE /delete/{patient_id}
delete_patient(data, id) ==
    IF id \notin Keys(data) THEN Reply(404, "Patient Data not found")
    ELSE Saved(200, "patient deleted", Del(data, id))

(***************************************************************************)
(* The premium service: UserInput.bmi and UserInput.lifestyle_risk.        *)
(* bmi is not rounded there, so it is compared as the exact quotient       *)
(* weight / (height/100)^2 = weight * 10000 / height^2                     *)
(***************************************************************************)
Smokers == BOOLEAN
ApplicantHeights == {0, 150, 160, 170, 180, 200, 250}
ApplicantWeights == {0, 50, 60, 70, 80, 90, 100, 108, 109, 120, 121}

\* Field(gt=0) of weight, Field(gt=0, lt=2.5) of height
UserInputValid(a) == a.weight > 0 /\ a.height > 0 /\ a.height < 250

\* the comparison made inclusive
BmiAtLeast(a, threshold) == a.weight * 10000 >= threshold * a.height * a.height

\* self.bmi > threshold
BmiAbove(a, threshold) == a.weight * 10000 > threshold * a.height * a.height

\* UserInput.lifestyle_risk
lifestyle_risk(a) ==
    IF a.smoker /\ BmiAbove(a, 30) THEN "high"
    ELSE IF a.smoker \/ BmiAbove(a, 27) THEN "medium"
    ELSE "low"

(***************************************************************************)
(* Initial states: patients.json as found on disk.  It is written outside  *)
(* the program, so besides records the program would have written it may   *)
(* hold a record without the computed fields (SeedA as it is) and one      *)
(* whose computed fields are stale and whose age is out of range (Stale).  *)
(***************************************************************************)
SeedA == [height |-> 150, weight |-> 50,
          name |-> "Ali", city |-> "Lahore", age |-> 30, gender |-> "male"]
SeedB == [height |-> 200, weight |-> 100,
          name |-> "Sara", city |-> "Lahore", age |-> 30, gender |-> "male"]
Stale == [model_dump([SeedB EXCEPT !["age"] = 120])
             EXCEPT !["bmi"] = 2222, !["verdict"] = "Normal"]

SeedRecords == {model_dump(SeedA), model_dump(SeedB), SeedA, Stale}

DistinctIds(s) == \A i, j \in 1..Len(s) : i # j => s[i].id # s[j].id

SeedFiles ==
    UNION {{s \in [1..n -> [id : PatientIds, rec : SeedRecords]] : DistinctIds(s)}
           : n \in 0..MaxIds}

Idle == [op |-> "idle"]
NoResp == [status |-> 0]
IdleWorker == [pc |-> "idle"]

Init ==
    /\ file \in SeedFiles
    /\ req = Idle
    /\ resp = NoResp
    /\ loaded = <<>>
    /\ last = [i \in PatientIds |-> "other"]
    /\ work = [w \in Workers |-> IdleWorker]
    /\ risk = [status |-> 0]

(***************************************************************************)
(* Requests                                                                *)
(***************************************************************************)
PatientBodies == Assignments(InputFields)

\* PUT bodies: up to MaxSet keys supplied, each with a value or with null
UpdateBodies ==
    UNION {UNION {{[vals |-> v, nulls |-> N] : v \in Assignments(S \ N)}
                  : N \in SUBSET S}
           : S \in {T \in SUBSET InputFields : Cardinality(T) <= MaxSet}}

SortFields == {"height", "weight", "bmi", "name"}
SortOrders == {"asc", "desc", "up"}

\* order: str = Query('asc'): a request without the parameter gets 'asc'
OrderParam(r) == IF "order" \in DOMAIN r THEN r.order ELSE "asc"

\* the endpoint a request is routed to, applied to the loaded data
Handle(data, r) ==
    CASE r.op = "view" -> view(data)
      [] r.op = "view_patient" -> view_patient(data, r.id)
      [] r.op = "sort" -> sort_patient(data, r.sort_by, OrderParam(r))
      [] r.op = "create" -> create_patient(data, r.id, r.body)
      [] r.op = "update" -> update_patient(data, r.id, r.body)
      [] r.op = "delete" -> delete_patient(data, r.id)

\* history: the last successful mutation of each patient id
Mutated(r, result) ==
    IF result.save
    THEN [last EXCEPT ![r.id] = CASE r.op = "create" -> "created"
                                  [] r.op = "update" -> "other"
                                  [] r.op = "delete" -> "deleted"]
    ELSE last

(***************************************************************************)
(* The sequential server: one request at a time, each endpoint run from    *)
(* load_data to its return or exception                                    *)
(***************************************************************************)
Serve(r) ==
    /\ req = Idle
    /\ LET result == Handle(load_data, r)
       IN  /\ IF result.save THEN save_data(result.data) ELSE UNCHANGED file
           /\ resp' = [status |-> result.status, body |-> result.body]
           /\ last' = Mutated(r, result)
    /\ req' = r
    /\ loaded' = load_data
    /\ UNCHANGED <<work, risk>>

View == Serve([op |-> "view"])

ViewPatient == \E id \in PatientIds : Serve([id |-> id, op |-> "view_patient"])

SortPatient ==
    \E sort_by \in SortFields :
        \/ \E order \in SortOrders :
               Serve([sort_by |-> sort_by, order |-> order, op |-> "sort"])
        \/ Serve([sort_by |-> sort_by, op |-> "sort"])

CreatePatient ==
    \E id \in PatientIds, body \in PatientBodies :
        Serve([id |-> id, body |-> body, op |-> "create"])

UpdatePatient ==
    \E id \in PatientIds, body \in UpdateBodies :
        Serve([id |-> id, body |-> body, op |-> "update"])

DeletePatient == \E id \in PatientIds : Serve([id |-> id, op |-> "delete"])

\* the response goes out and the server takes the next request
Respond ==
    /\ req # Idle
    /\ req' = Idle
    /\ resp' = NoResp
    /\ loaded' = <<>>
    /\ UNCHANGED <<file, last, work, risk>>

Next ==
    \/ View
    \/ ViewPatient
    \/ SortPatient
    \/ CreatePatient
    \/ UpdatePatient
    \/ DeletePatient
    \/ Respond

Spec == Init /\ [][Next]_vars

(***************************************************************************)
(* The concurrent server.  The endpoints are plain `def`s, which the       *)
(* framework runs on a pool of threads: each worker thread loads the file, *)
(* and in a later step computes its result from that snapshot and saves.   *)
(* Each worker serves one mutating request, a create of SeedB, an update   *)
(* of one field or a delete.  work[w].at counts the saves                  *)
(* completed when w loaded, work[w].turn is the rank of w's own save.      *)
(***************************************************************************)
RaceBodies ==
    {[vals |-> ("name" :> "Sara"), nulls |-> {}],
     [vals |-> ("weight" :> 100), nulls |-> {}]}

RaceRequests ==
    {[id |-> id, body |-> SeedB, op |-> "create"] : id \in PatientIds}
    \cup {[id |-> id, body |-> b, op |-> "update"] : id \in PatientIds, b \in RaceBodies}
    \cup {[id |-> id, op |-> "delete"] : id \in PatientIds}

SavesDone == Cardinality({w \in Workers : work[w].pc = "done" /\ work[w].saved})

\* an endpoint that reads the file again where it uses `data`
ReloadedData(w) == file

\* the local variable `data` of worker w's endpoint: what its load_data() returned
LoadedData(w) == work[w].data

\* data = load_data()
RaceLoad(w) ==
    /\ work[w].pc = "idle"
    /\ \E r \in RaceRequests :
           work' = [work EXCEPT ![w] =
                       [req |-> r, data |-> load_data, pc |-> "loaded", at |-> SavesDone]]
    /\ UNCHANGED <<file, req, resp, loaded, last, risk>>

\* the rest of the endpoint: the check, the mutation of `data`, save_data(data)
RaceFinish(w) ==
    /\ work[w].pc = "loaded"
    /\ LET result == Handle(LoadedData(w), work[w].req)
       IN  /\ IF result.save THEN save_data(result.data) ELSE UNCHANGED file
           /\ work' = [work EXCEPT ![w] =
                          [req |-> work[w].req, data |-> work[w].data,
                           status |-> result.status, pc |-> "done",
                           saved |-> result.save, at |-> work[w].at,
                           turn |-> IF result.save THEN SavesDone + 1 ELSE 0]]
    /\ UNCHANGED <<req, resp, loaded, last, risk>>

RaceNext == \E w \in Workers : RaceLoad(w) \/ RaceFinish(w)

\* the race is followed from the files that hold at most one patient
RaceInit == Init /\ Len(file) <= 1

RaceSpec == RaceInit /\ [][RaceNext]_vars

(***************************************************************************)
(* The premium service: POST /predict derives the features of a valid      *)
(* applicant; an invalid one is answered 422 by the framework.  Of the     *)
(* applicant only the fields lifestyle_risk reads are carried.             *)
(***************************************************************************)
Applicants == [height : ApplicantHeights, weight : ApplicantWeights, smoker : Smokers]

Predict ==
    \E a \in Applicants :
        /\ risk' = IF UserInputValid(a)
                   THEN [status |-> 200, lifestyle_risk |-> lifestyle_risk(a),
                         applicant |-> a]
                   ELSE [status |-> 422, applicant |-> a]
        /\ UNCHANGED <<file, req, resp, loaded, last, work>>

PremiumNext == Predict

PremiumSpec == Init /\ [][PremiumNext]_vars

(***************************************************************************)
(* Properties.  What the claims call bmi, verdict and the field            *)
(* constraints is stated here directly, not through the operators above.   *)
(***************************************************************************)
\* b is weight / height^2 rounded to two decimals (b in hundredths)
IsRoundedBmi(b, height, weight) ==
    LET n == weight * 1000000
        d == height * height
    IN  /\ 2 * (b * d - n) <= d
        /\ 2 * (n - b * d) <= d
        /\ (2 * (b * d - n) = d \/ 2 * (n - b * d) = d) => b % 2 = 0

IsVerdictOf(v, b) ==
    /\ b < 1850 => v = "Underweight"
    /\ (1850 <= b /\ b < 2500) => v = "Normal"
    /\ (2500 <= b /\ b < 3000) => v = "Overweight"
    /\ b >= 3000 => v = "Obese"

DerivedOK(rec) ==
    /\ {"height", "weight", "bmi", "verdict"} \subseteq DOMAIN rec
    /\ IsRoundedBmi(rec["bmi"], rec["height"], rec["weight"])
    /\ IsVerdictOf(rec["verdict"], rec["bmi"])

InRange(f, v) ==
    /\ f = "age" => v \in 1..119
    /\ f = "gender" => v \in {"male", "female", "other"}
    /\ f = "height" => v > 0
    /\ f = "weight" => v > 0

ConstraintsOK(rec) ==
    /\ InputFields \subseteq DOMAIN rec
    /\ \A f \in InputFields : InRange(f, rec[f])

AllRecords(data, P(_)) == \A i \in 1..Len(data) : P(data[i].rec)

\* the response in flight answers a request to endpoint op; `loaded` is the file
\* before the request and `file` the file after it
Served(op) == req.op = op
Succeeded == resp.status \in {200, 201}

\* C1: a successful update (PUT /edit/{id}) leaves every input field the body did
\* not supply as it was, sets every supplied field to the body's value, and
\* stores bmi and verdict computed from the height and weight after the merge.
UpdateMergesPartial ==
    (Served("update") /\ Succeeded) =>
        LET old == Get(loaded, req.id)
            new == Get(file, req.id)
        IN  /\ \A f \in InputFields \ FieldsSet(req.body) : new[f] = old[f]
            /\ \A f \in FieldsSet(req.body) :
                   f \in DOMAIN req.body.vals /\ new[f] = req.body.vals[f]
            /\ DOMAIN new = InputFields \cup DerivedFields
            /\ IsRoundedBmi(new["bmi"], new["height"], new["weight"])
            /\ IsVerdictOf(new["verdict"], new["bmi"])

\* C1 witness: an update supplying the height and the age has succeeded on the
\* record whose stored bmi was stale; the record keeps the name and the weight it
\* had, and its bmi and verdict are those of the new height with the old weight.
UpdateMergesPartialWitness ==
    /\ Served("update") /\ resp.status = 200
    /\ FieldsSet(req.body) = {"height", "age"} /\ req.body.vals["height"] = 150
    /\ Get(loaded, req.id) = Stale
    /\ Get(file, req.id)["name"] = "Sara"
    /\ Get(file, req.id)["weight"] = 100
    /\ Get(file, req.id)["bmi"] = 4444
    /\ Get(file, req.id)["verdict"] = "Obese"

StoreDerivedOK(data) == AllRecords(data, DerivedOK)

\* C2: a request served on a file whose records all have consistent derived
\* fields (bmi = round(weight / height^2, 2), verdict by the thresholds 18.5, 25, 30)
\* leaves such a file, whether it succeeds or fails; and a get of an id whose
\* last mutation was a create returns the stored record, with consistent derived
\* fields, whatever the file held before.
DerivedFieldsConsistent ==
    /\ (req # Idle /\ StoreDerivedOK(loaded)) => StoreDerivedOK(file)
    /\ (Served("view_patient") /\ last[req.id] = "created") =>
           /\ resp.status = 200
           /\ resp.body = Get(file, req.id)
           /\ DerivedOK(resp.body)

\* C2 witness: a get answers for an id that was created (bmi exactly 25, on the
\* Overweight threshold) next to a record that never had derived fields.
DerivedFieldsConsistentWitness ==
    /\ Served("view_patient") /\ resp.status = 200
    /\ last[req.id] = "created"
    /\ resp.body["bmi"] = 2500 /\ resp.body["verdict"] = "Overweight"
    /\ Len(file) = 2
    /\ ~StoreDerivedOK(file)

StoreConstraintsOK(data) == AllRecords(data, ConstraintsOK)

\* C3: a request served on a file whose records all satisfy the Patient field
\* constraints leaves such a file; and an update whose body passes PatientUpdate
\* but whose merged record violates a constraint (a supplied null, or an
\* unsupplied field that is missing or out of range in the stored record) is
\* answered with a validation error and writes nothing.
ConstraintsPreserved ==
    /\ (req # Idle /\ StoreConstraintsOK(loaded)) => StoreConstraintsOK(file)
    /\ (/\ Served("update")
        /\ req.id \in Keys(loaded)
        /\ \A f \in DOMAIN req.body.vals : InRange(f, req.body.vals[f])
        /\ \E f \in InputFields :
              \/ f \in req.body.nulls
              \/ /\ f \notin FieldsSet(req.body)
                 /\ (f \in DOMAIN Get(loaded, req.id)
                        => ~InRange(f, Get(loaded, req.id)[f])))
       => /\ resp.status = 500
          /\ resp.body = "ValidationError"
          /\ file = loaded

\* C3 witness: on a file of two valid records, an update that nulls the name and
\* sets a valid age has been refused.
ConstraintsPreservedWitness ==
    /\ Served("update") /\ resp.status = 500
    /\ req.body.nulls = {"name"} /\ DOMAIN req.body.vals = {"age"}
    /\ Len(file) = 2
    /\ StoreConstraintsOK(file)

\* C4: create (POST /create) of a valid body with an id that is a key of the file
\* is answered 400 and leaves the file as it is; with an id that is not, it is
\* answered 201 and the file gains exactly that key, holding the body's six
\* fields (no id) with bmi and verdict.
CreateContract ==
    (Served("create") /\ ConstraintsOK(req.body)) =>
        IF req.id \in Keys(loaded)
        THEN resp.status = 400 /\ file = loaded
        ELSE /\ resp.status = 201
             /\ Keys(file) = Keys(loaded) \cup {req.id}
             /\ LET new == Get(file, req.id)
                IN  /\ DOMAIN new = InputFields \cup DerivedFields
                    /\ \A f \in InputFields : new[f] = req.body[f]
                    /\ DerivedOK(new)

\* C4 witness: a create of an existing id with a different valid body was refused
CreateContractWitness ==
    /\ Served("create") /\ resp.status = 400
    /\ ConstraintsOK(req.body)
    /\ req.id \in Keys(file)
    /\ Get(file, req.id)["name"] # req.body["name"]

\* C5: a get of an id whose last successful mutation was a delete is answered
\* 404; a delete or a get of an id that is no key of the file is answered 404 and
\* leaves the file as it is; a successful delete removes the key.
DeleteThenGetNotFound ==
    /\ (Served("view_patient") /\ last[req.id] = "deleted") => resp.status = 404
    /\ ((Served("view_patient") \/ Served("delete")) /\ req.id \notin Keys(loaded))
           => resp.status = 404 /\ file = loaded
    /\ (Served("delete") /\ Succeeded) => req.id \notin Keys(file)

\* C5 witness: a get of a deleted id was answered 404 while the other id is stored
DeleteThenGetNotFoundWitness ==
    /\ Served("view_patient") /\ resp.status = 404
    /\ last[req.id] = "deleted"
    /\ Len(file) = 1

\* the sort key the claim gives a record: the field's value, 0 without the field
KeyOrZero(x, f) == IF f \in DOMAIN x THEN x[f] ELSE 0

\* the order a sort request asks for: asc when the parameter is absent
AskedOrder(r) == IF "order" \in DOMAIN r THEN r.order ELSE "asc"

\* C6: sort with a field among height, weight, bmi and an order asc (also the
\* default) or desc returns all records of the mapping, each once, non-decreasing
\* by the field for asc and non-increasing for desc, a record without the field
\* counting as 0, and records with equal values in their order in the mapping.
SortContract ==
    (/\ Served("sort")
     /\ req.sort_by \in {"height", "weight", "bmi"}
     /\ AskedOrder(req) \in {"asc", "desc"}) =>
        /\ resp.status = 200
        /\ Len(resp.body) = Len(loaded)
        /\ \E p \in Permutations(1..Len(loaded)) :
              /\ \A i \in 1..Len(loaded) : resp.body[i] = loaded[p[i]].rec
              /\ \A i, j \in 1..Len(loaded) :
                    i < j =>
                       LET ki == KeyOrZero(resp.body[i], req.sort_by)
                           kj == KeyOrZero(resp.body[j], req.sort_by)
                       IN  /\ AskedOrder(req) = "asc" => ki <= kj
                           /\ AskedOrder(req) = "desc" => ki >= kj
                           /\ ki = kj => p[i] < p[j]

\* C6 witness: a descending sort by weight of two different records of equal
\* weight returned them in the order of the mapping.
SortContractWitness ==
    /\ Served("sort") /\ resp.status = 200
    /\ req.sort_by = "weight" /\ AskedOrder(req) = "desc"
    /\ Len(resp.body) = 2
    /\ resp.body[1] # resp.body[2]
    /\ resp.body[1]["weight"] = resp.body[2]["weight"]
    /\ resp.body = ValuesOf(loaded)

\* C7: list, get and sort leave the file as it is; list returns the whole
\* mapping; a sort with a field outside height, weight, bmi or an order outside
\* asc, desc is answered 400; a successful sort returns the stored records as
\* they are stored, a record without the sort field still without it.
ReadsLeaveStore ==
    /\ (Served("view") \/ Served("view_patient") \/ Served("sort")) => file = loaded
    /\ Served("view") => resp.status = 200 /\ resp.body = loaded
    /\ (Served("sort") /\ (\/ req.sort_by \notin {"height", "weight", "bmi"}
                           \/ AskedOrder(req) \notin {"asc", "desc"}))
           => resp.status = 400
    /\ (Served("sort") /\ resp.status = 200) =>
           \A i \in 1..Len(resp.body) :
               \E k \in 1..Len(file) : resp.body[i] = file[k].rec

\* C7 witness: a sort by bmi succeeded on a file holding a record without bmi;
\* the record is returned first and is still stored without bmi.
ReadsLeaveStoreWitness ==
    /\ Served("sort") /\ resp.status = 200
    /\ req.sort_by = "bmi" /\ AskedOrder(req) = "asc"
    /\ Len(file) = 2
    /\ "bmi" \notin DOMAIN file[2].rec
    /\ "bmi" \in DOMAIN file[1].rec
    /\ resp.body[1] = file[2].rec

\* C10: a successful create adds exactly its key, a successful delete removes
\* exactly its key, a successful update keeps the keys; in all three the record
\* of every other id is the one it was; a create, update or delete that fails
\* leaves the file as it is.
MutationFrame ==
    (Served("create") \/ Served("update") \/ Served("delete")) =>
        IF Succeeded
        THEN /\ Served("create") =>
                    req.id \notin Keys(loaded) /\ Keys(file) = Keys(loaded) \cup {req.id}
             /\ Served("delete") =>
                    req.id \in Keys(loaded) /\ Keys(file) = Keys(loaded) \ {req.id}
             /\ Served("update") => Keys(file) = Keys(loaded)
             /\ Len(file) = Cardinality(Keys(file))
             /\ \A id \in Keys(loaded) \ {req.id} :
                    id \in Keys(file) /\ Get(file, id) = Get(loaded, id)
        ELSE file = loaded

\* C10 witness: an update of one id succeeded next to a record without derived
\* fields under the other id, which is still stored as it was.
MutationFrameWitness ==
    /\ Served("update") /\ resp.status = 200
    /\ Len(file) = 2
    /\ Get(file, req.id) # Get(loaded, req.id)
    /\ \E id \in Keys(file) \ {req.id} : Get(file, id) = SeedA

\* worker w has saved: its request was answered with success
HasSaved(w) == work[w].pc = "done" /\ work[w].saved

\* w1 and w2 both loaded before either saved, w1 saved first, w2 saved last of all
RacedAndOverwrote(w1, w2) ==
    /\ w1 # w2
    /\ HasSaved(w1) /\ HasSaved(w2)
    /\ work[w1].at < work[w1].turn /\ work[w2].at < work[w1].turn
    /\ work[w1].turn < work[w2].turn
    /\ work[w2].turn = SavesDone

\* C8: when two mutating requests both load before either saves, both are
\* answered with success and, once the second has saved, the file is the second
\* writer's snapshot with the second writer's mutation alone: every other id is
\* stored, or absent, as in the snapshot the second writer loaded.
LastWriteWins ==
    \A w1, w2 \in Workers :
        RacedAndOverwrote(w1, w2) =>
            /\ work[w1].status \in {200, 201}
            /\ work[w2].status \in {200, 201}
            /\ file = Handle(work[w2].data, work[w2].req).data
            /\ \A id \in PatientIds \ {work[w2].req.id} :
                  /\ id \in Keys(file) <=> id \in Keys(work[w2].data)
                  /\ id \in Keys(file) => Get(file, id) = Get(work[w2].data, id)

\* C8 witness: two creates of different ids raced from the same file, both were
\* answered 201, and the id the first writer created is not in the file.
LastWriteWinsWitness ==
    \E w1, w2 \in Workers :
        /\ RacedAndOverwrote(w1, w2)
        /\ work[w1].req.op = "create" /\ work[w1].status = 201
        /\ work[w2].req.op = "create" /\ work[w2].status = 201
        /\ work[w1].data = work[w2].data
        /\ work[w1].req.id # work[w2].req.id
        /\ work[w1].req.id \notin Keys(file)
        /\ work[w2].req.id \in Keys(file)

\* C9: for a valid applicant, lifestyle_risk is high iff smoker and bmi > 30,
\* medium iff (smoker or bmi > 27) and not high, low otherwise; a smoker is never
\* low and a non-smoker never high.
LifestyleRiskRule ==
    risk.status = 200 =>
        LET a == risk.applicant
            over30 == a.weight * 10000 > 30 * a.height * a.height
            over27 == a.weight * 10000 > 27 * a.height * a.height
            high == a.smoker /\ over30
        IN  /\ risk.lifestyle_risk \in {"low", "medium", "high"}
            /\ risk.lifestyle_risk = "high" <=> high
            /\ risk.lifestyle_risk = "medium" <=> ((a.smoker \/ over27) /\ ~high)
            /\ risk.lifestyle_risk = "low" <=> (~a.smoker /\ ~over27)
            /\ a.smoker => risk.lifestyle_risk # "low"
            /\ ~a.smoker => risk.lifestyle_risk # "high"

\* C9 witness: a smoker of bmi exactly 30 (120 kg, 2.00 m) is rated medium
LifestyleRiskRuleWitness ==
    /\ risk.status = 200
    /\ risk.applicant = [height |-> 200, weight |-> 120, smoker |-> TRUE]
    /\ risk.lifestyle_risk = "medium"

====
